---- MODULE Spec2Model ----
(***************************************************************************)
(* LiveStrategyExecution (bfx-hf-strategy-exec): the stream orchestration  *)
(* core.  Times are counted in units of 30 s, so that the 1m timeframe is  *)
(* 2 units wide, its closure delay (1.5 widths) is 3 units and the 120 s   *)
(* look-back of a resume is 4 units.  A page of a REST candle query, 1000   *)
(* candles in the source, is 2 candles.                                    *)
(*                                                                         *)
(* A step of the model is one turn of the host's event loop: a handler     *)
(* runs from its start to the point where every promise it waits on is     *)
(* held by a collaborator (a strategy callback or a REST request).  Awaits *)
(* of promises that are already settled continue in the same turn.         *)
(***************************************************************************)
EXTENDS Integers, Sequences, FiniteSets, TLC

----------------------------------------------------------------------------
(* Bounds of the model *)

\* the wall clock stops here
MaxTime == 7
\* number of events the environment raises after execute() was called: data
\* events, open and close events of the socket, stopExecution and invoke calls
MaxEvents == 3
\* number of strategy callbacks and REST requests outstanding at once
MaxPending == 2
\* longest message queue
MaxQueue == 4
\* number of strategy callbacks that fail
MaxFail == 1
\* number of bars a candle delivered by the socket may be behind the open bar
MaxLag == 2
\* number of bars of a REST query's range the exchange has no candle for
MaxGaps == 1
\* largest candleSeed of the engines whose seeding is followed page by page
MaxSeed == 4
\* the widest range handed to _padCandles, in candles
MaxPad == 3
\* the most wallets of a wallet set
MaxWallets == 2
\* the most messages waiting in the queue at a resume
MaxResidual == 2

----------------------------------------------------------------------------
(* Program constants *)

\* candleWidth(timeframe) for the 1m timeframe
CandleWidth == 2
\* the 120 * 1000 ms look-back of _fetchCandlesForPausedDuration
PausedThreshold == 4
\* the page size of a REST candle query, 1000 candles in the source
CANDLE_FETCH_LIMIT == 2
\* the 1000 of the window arithmetic of _seedCandles, scaled alike
SeedWindowCandles == 2
\* strategyOptions.candleSeed of the engine under Spec
CandleSeed == 2
\* strategyOptions.trades
IncludeTrades == TRUE
ORDER_CLOSE_EVENT == "auth:oc"
WALLET_SNAPSHOT_EVENT == "auth:ws"
WALLET_UPDATE_EVENT == "auth:wu"
\* strategyOptions.symbol and strategyOptions.timeframe
Symbol == "tBTCUSD"
Timeframe == "1m"

\* the value of strategyState.candlePrice when the strategy configures none:
\* data[undefined] reads the property named "undefined"
NoCandlePrice == "undefined"

\* the host does not keep track of the socket
Untracked == "untracked"

\* wall-clock times at which the engine may be constructed
InitTimes == {5}

\* null
Null == [null |-> TRUE]
\* the value of a property an object does not have
Undefined == -1000

\* Math.ceil(a / b) for b > 0
Ceil(a, b) == -((-a) \div b)

Min(a, b) == IF a < b THEN a ELSE b
Max(a, b) == IF a > b THEN a ELSE b

\* alignRangeMts(timeframe, mts): mts aligned down to the candle range
AlignRangeMts(mts) == mts - (mts % CandleWidth)

Aligned(lo, hi) == {m \in lo..hi : m % CandleWidth = 0}

----------------------------------------------------------------------------
(* Candles *)

\* a candle as the exchange reports it
RealCandle(mts, close) ==
  [mts |-> mts, open |-> 1, close |-> close, high |-> 2, low |-> 1, volume |-> 1]

CopyCandleWithNewTime(candle, newTime) ==
  [candle EXCEPT !.mts = newTime,
                 !.open = candle.close,
                 !.close = candle.close,
                 !.high = candle.close,
                 !.low = candle.close,
                 !.volume = 0]

\* paddedCandles.splice(at, 0, ...items)
Splice(arr, at, items) ==
  LET a == Min(at, Len(arr))
  IN SubSeq(arr, 1, a) \o items \o SubSeq(arr, a + 1, Len(arr))

RECURSIVE PadLoop(_, _, _, _, _, _)
PadLoop(candles, width, startTime, endTime, i, acc) ==
  \* acc = [padded, added]; i is the 0-based loop index; the fillers are
  \* Array(n).map((c, i) => ...) with i = k - 1
  IF i >= Len(candles) THEN acc.padded
  ELSE
    LET candle == candles[i + 1]
        candleTime == candle.mts
        headFill == Ceil(candleTime - startTime, width)
        acc1 ==
          IF i = 0 /\ candleTime >= startTime + width /\ headFill > 0
          THEN [padded |-> Splice(acc.padded, 0,
                   [k \in 1..headFill |->
                      CopyCandleWithNewTime(candle,
                        candle.mts - (width * (headFill - (k - 1))))]),
                added |-> acc.added + headFill]
          ELSE acc
        nextCandleTime == IF i + 2 <= Len(candles) THEN candles[i + 2].mts ELSE endTime
        candlesToFill == Ceil(nextCandleTime - candleTime, width) - 1
        acc2 ==
          IF candlesToFill > 0
          THEN [padded |-> Splice(acc1.padded, i + 1 + acc1.added,
                   [k \in 1..candlesToFill |->
                      CopyCandleWithNewTime(candle, candle.mts + (width * ((k - 1) + 1)))]),
                added |-> acc1.added + candlesToFill]
          ELSE acc1
    IN PadLoop(candles, width, startTime, endTime, i + 1, acc2)

PadCandles(candles, width, startTime, endTime) ==
  PadLoop(candles, width, startTime, endTime, 0, [padded |-> candles, added |-> 0])

\* the ascending list of the candles of a set of buckets
RECURSIVE CandleList(_)
CandleList(S) ==
  IF S = {} THEN <<>>
  ELSE LET m == CHOOSE x \in S : \A y \in S : x <= y
       IN <<RealCandle(m, 1)>> \o CandleList(S \ {m})

\* what rest.candles may answer for a query: any ascending list of real
\* candles of the buckets inside [start, end]
RestResponses(query) ==
  LET buckets == Aligned(Max(query.start, 0), query.end)
  IN {CandleList(buckets \ missing) :
        missing \in {M \in SUBSET buckets : Cardinality(M) <= MaxGaps}}

----------------------------------------------------------------------------
(* State *)

VARIABLES
  messages,             \* this.messages
  lastCandle,           \* this.lastCandle
  lastTrade,            \* this.lastTrade
  processing,           \* this.processing
  stopped,              \* this.stopped
  paused,               \* this.paused
  pausedMts,            \* this.pausedMts
  lastPriceFeedUpdate,  \* this.lastPriceFeedUpdate
  strategyState,        \* this.strategyState: an opaque value, known by its generation
  wallets,              \* this.strategyState.wallets
  nextCandleTimeout,    \* deadline of the pending closure timer
  pending,              \* the promises held by collaborators, oldest first
  phase,                \* progress of execute(): fresh, seeding, live, failed
  now,                  \* Date.now()
  errors,               \* the 'error' events emitted
  onCandleSeen,         \* mts of the last two candles passed to onCandle
  onTradeSeen,          \* id of the last two trades passed to onTrade
  dispatched,           \* number of messages the drain loops took from the queue
  dropped,              \* number of messages _enqueueMessage refused
  suppressed,           \* number of timer callbacks that found the engine paused or stopped
  events,               \* number of events the environment has yet to raise
  nFail,                \* number of failures so far
  candleSeed,           \* strategyOptions.candleSeed
  candlePrice,          \* strategy.candlePrice, as spread into this.strategyState
  position,             \* getPosition(this.strategyState, symbol) finds an open position
  listening,            \* the host listens to rt_execution_results and
                        \* opened_position_data
  emitted,              \* what these listeners received in this turn
  input,                \* the arguments of a function applied on its own
  output,               \* and what it returned
  socket                \* the last event of the socket, where the host keeps track of it

vars == <<messages, lastCandle, lastTrade, processing, stopped, paused, pausedMts,
          lastPriceFeedUpdate, strategyState, wallets, nextCandleTimeout, pending,
          phase, now, errors, onCandleSeen, onTradeSeen, dispatched, dropped,
          suppressed, events, nFail, candleSeed, candlePrice, position, listening,
          emitted, input, output, socket>>

\* the fields of the engine and what the strategy and the host observed
engineVars == <<messages, lastCandle, lastTrade, processing, stopped, paused, pausedMts,
                lastPriceFeedUpdate, strategyState, wallets, nextCandleTimeout, pending,
                errors, onCandleSeen, onTradeSeen, dispatched, dropped, suppressed, socket>>

\* the engine's fields as one value; running: a drain loop is between two
\* messages in this turn; threw: the handler of this turn threw; seeded:
\* _seedCandles returned in this turn
Cur ==
  [messages |-> messages, lastCandle |-> lastCandle, lastTrade |-> lastTrade,
   processing |-> processing, stopped |-> stopped, paused |-> paused,
   pausedMts |-> pausedMts, lastPriceFeedUpdate |-> lastPriceFeedUpdate,
   strategyState |-> strategyState, wallets |-> wallets,
   nextCandleTimeout |-> nextCandleTimeout, pending |-> pending,
   errors |-> errors, onCandleSeen |-> onCandleSeen, onTradeSeen |-> onTradeSeen,
   dispatched |-> dispatched, dropped |-> dropped, suppressed |-> suppressed,
   emitted |-> <<>>, socket |-> socket,
   running |-> FALSE, threw |-> FALSE, seeded |-> FALSE]

Becomes(e) ==
  /\ Len(e.pending) <= MaxPending
  /\ Len(e.messages) <= MaxQueue
  /\ messages' = e.messages
  /\ lastCandle' = e.lastCandle
  /\ lastTrade' = e.lastTrade
  /\ processing' = e.processing
  /\ stopped' = e.stopped
  /\ paused' = e.paused
  /\ pausedMts' = e.pausedMts
  /\ lastPriceFeedUpdate' = e.lastPriceFeedUpdate
  /\ strategyState' = e.strategyState
  /\ wallets' = e.wallets
  /\ nextCandleTimeout' = e.nextCandleTimeout
  /\ pending' = e.pending
  /\ errors' = e.errors
  /\ onCandleSeen' = e.onCandleSeen
  /\ onTradeSeen' = e.onTradeSeen
  /\ dispatched' = e.dispatched
  /\ dropped' = e.dropped
  /\ suppressed' = e.suppressed
  /\ emitted' = e.emitted
  /\ socket' = e.socket
  /\ UNCHANGED <<candleSeed, candlePrice, position, listening, input, output>>

NoPausedMts == [pausedOn |-> Undefined, resumedOn |-> Undefined]

\* the engine after its constructor ran
Constructed ==
  /\ messages = <<>>
  /\ lastCandle = Null
  /\ lastTrade = Null
  /\ processing = FALSE
  /\ stopped = FALSE
  /\ paused = FALSE
  /\ pausedMts = NoPausedMts
  /\ lastPriceFeedUpdate = 0
  /\ strategyState = 0
  /\ wallets = <<>>
  /\ nextCandleTimeout = Undefined
  /\ pending = <<>>
  /\ phase = "fresh"
  /\ errors = <<>>
  /\ onCandleSeen = <<>>
  /\ onTradeSeen = <<>>
  /\ dispatched = 0
  /\ dropped = 0
  /\ suppressed = 0
  /\ nFail = 0

\* a strategy that configures no candlePrice and holds no position, on a host
\* that listens to the error event only
Init ==
  /\ Constructed
  /\ input = Null
  /\ output = Null
  /\ now \in InitTimes
  /\ events = MaxEvents
  /\ candleSeed = CandleSeed
  /\ candlePrice = NoCandlePrice
  /\ position = FALSE
  /\ listening = FALSE
  /\ socket = Untracked
  /\ emitted = <<>>

----------------------------------------------------------------------------
(* Strategy callbacks *)

StrategyCallbacks ==
  {"onSeedCandle", "onCandle", "onTrade", "onOrder", "onEnd", "closeOpenPositions"}

\* the last two of a series of observations
Seen(log, x) == IF Len(log) = 2 THEN <<log[2], x>> ELSE Append(log, x)

\* a strategy callback is called: cb(this.strategyState, arg); data is what
\* the caller keeps for the continuation; state is the state passed, and for a
\* call of the drain loop lastCandle and lastTrade are the values at the call
Call(e, cb, origin, data, arg) ==
  [e EXCEPT !.pending = Append(@, [cb |-> cb, origin |-> origin, data |-> data,
                                   arg |-> arg, state |-> e.strategyState,
                                   lastCandle |-> IF origin = "drain" THEN e.lastCandle
                                                  ELSE Null,
                                   lastTrade |-> IF origin = "drain" THEN e.lastTrade
                                                 ELSE Null]),
            !.onCandleSeen = IF cb = "onCandle" THEN Seen(@, arg.mts) ELSE @,
            !.onTradeSeen = IF cb = "onTrade" THEN Seen(@, arg.id) ELSE @,
            !.running = FALSE]

\* what the strategy is asked to handle
Key(t) ==
  CASE t.cb \in {"onSeedCandle", "onCandle"} -> t.arg.mts
    [] t.cb \in {"onTrade", "onOrder"} -> t.arg.id
    [] OTHER -> 0

\* the state a callback returns: a new value, derived from the state it was given
Result(t) == t.state + 1

RemoveAt(seq, i) == SubSeq(seq, 1, i - 1) \o SubSeq(seq, i + 1, Len(seq))

InFlight(cbs) == {i \in 1..Len(pending) : pending[i].cb \in cbs}

----------------------------------------------------------------------------
(* Closure timer *)

\* a wait of two candle widths
WaitTwoWidths(cWidth) == cWidth * 2

\* _calculateTimeToWaitForCandle: cWidth * 1.5
CalculateTimeToWaitForCandle(cWidth) == (cWidth * 3) \div 2

SetNextCandleTimeout(e) ==
  IF e.paused \/ e.stopped THEN e
  ELSE IF e.lastCandle = Null
  THEN \* the timer is cleared, then this.lastCandle.mts throws
       [e EXCEPT !.nextCandleTimeout = Undefined, !.threw = TRUE, !.running = FALSE]
  ELSE LET timeToWaitForCandle == CalculateTimeToWaitForCandle(CandleWidth)
           sinceLastCandle == now - e.lastCandle.mts
           timeout == timeToWaitForCandle - sinceLastCandle
       IN [e EXCEPT !.nextCandleTimeout = now + Max(timeout, 0)]

----------------------------------------------------------------------------
(* Emissions *)

\* data[candlePrice] for a candle, data.price otherwise
PriceOf(type, data) ==
  IF type = "candle"
  THEN IF candlePrice \in DOMAIN data THEN data[candlePrice] ELSE Undefined
  ELSE data.price

\* a value that is neither undefined nor 0
Truthy(x) == x # Undefined /\ x # 0

\* _emitStrategyExecutionResults: what generateResults reads is recorded with
\* the emission, and so is the number of drain loops that wait for a callback
EmitStrategyExecutionResults(e, type, data) ==
  IF ~listening THEN e
  ELSE LET price == PriceOf(type, data)
           opened == IF position /\ Truthy(price)
                     THEN <<[event |-> "opened_position_data", price |-> price]>>
                     ELSE <<>>
           results == [event |-> "rt_execution_results", type |-> type, data |-> data,
                       state |-> e.strategyState, lastCandle |-> e.lastCandle,
                       lastTrade |-> e.lastTrade,
                       drains |-> Cardinality({i \in 1..Len(e.pending) :
                                                 e.pending[i].origin = "drain"})]
       IN [e EXCEPT !.emitted = @ \o opened \o <<results>>]

----------------------------------------------------------------------------
(* Serial processor *)

UpdatePriceFeedUnguarded(e, mts) ==
  [e EXCEPT !.lastPriceFeedUpdate = mts]

\* if (mts > this.lastPriceFeedUpdate) { priceFeed.update(price, mts); ... }
UpdatePriceFeed(e, mts) ==
  IF mts > e.lastPriceFeedUpdate THEN [e EXCEPT !.lastPriceFeedUpdate = mts] ELSE e

\* _processCandleData up to its return or to the call of onCandle
ProcessCandleData(e, data, origin) ==
  LET e1 == UpdatePriceFeed(e, data.mts)
  IN IF e1.lastCandle = Null \/ e1.lastCandle.mts = data.mts
     THEN SetNextCandleTimeout(
            EmitStrategyExecutionResults([e1 EXCEPT !.lastCandle = data], "candle", data))
     ELSE IF e1.lastCandle.mts < data.mts
     THEN Call(e1, "onCandle", origin, data, e1.lastCandle)
     ELSE SetNextCandleTimeout(e1)

\* data.symbol = symbol
StampTrade(data) ==
  [id |-> data.id, mts |-> data.mts, price |-> data.price, symbol |-> Symbol]

\* _processTradeData up to its return or to the call of onTrade
ProcessTradeData(e, data) ==
  IF e.lastTrade # Null /\ e.lastTrade.id >= data.id THEN e
  ELSE Call(e, "onTrade", "drain", StampTrade(data), StampTrade(data))

ProcessOrderData(e, data) == Call(e, "onOrder", "drain", data, data)

\* wallet.balance = data.balance || wallet.balance
OrElse(a, b) == IF a = 0 \/ a = Undefined THEN b ELSE a

ProcessWalletDataByCurrency(e, data, type) ==
  IF type = WALLET_SNAPSHOT_EVENT
  THEN [e EXCEPT !.wallets =
          IF "collection" \in DOMAIN data
          THEN [k \in 1..Len(data.collection) |->
                  [currency |-> data.collection[k].currency,
                   type |-> data.collection[k].type,
                   balance |-> data.collection[k].balance,
                   balanceAvailable |-> data.collection[k].balanceAvailable]]
          ELSE <<>>]
  ELSE [e EXCEPT !.wallets =
          [k \in 1..Len(e.wallets) |->
             IF e.wallets[k].currency = data.currency
             THEN [e.wallets[k] EXCEPT !.balance = OrElse(data.balance, @),
                                       !.balanceAvailable = OrElse(data.balanceAvailable, @)]
             ELSE e.wallets[k]]]

\* this.strategyState is an object from the constructor on, so the first
\* return is never taken; a snapshot without _collection gives []
ProcessWalletData(e, data, type) ==
  IF type = WALLET_SNAPSHOT_EVENT
  THEN [e EXCEPT !.wallets =
          IF "collection" \in DOMAIN data
          THEN [k \in 1..Len(data.collection) |->
                  [currency |-> data.collection[k].currency,
                   type |-> data.collection[k].type,
                   balance |-> data.collection[k].balance,
                   balanceAvailable |-> data.collection[k].balanceAvailable]]
          ELSE <<>>]
  ELSE [e EXCEPT !.wallets =
          [k \in 1..Len(e.wallets) |->
             IF e.wallets[k].currency = data.currency /\ e.wallets[k].type = data.type
             THEN [e.wallets[k] EXCEPT
                     !.balance = OrElse(data.balance, @),
                     !.balanceAvailable = OrElse(data.balanceAvailable, @)]
             ELSE e.wallets[k]]]

ProcessMessage(e, msg) ==
  CASE msg.type = "trade" -> ProcessTradeData(e, msg.data)
    [] msg.type = "candle" -> ProcessCandleData(e, msg.data, "drain")
    [] msg.type = ORDER_CLOSE_EVENT -> ProcessOrderData(e, msg.data)
    [] msg.type = WALLET_SNAPSHOT_EVENT -> ProcessWalletData(e, msg.data, msg.type)
    [] msg.type = WALLET_UPDATE_EVENT -> ProcessWalletData(e, msg.data, msg.type)
    [] OTHER -> e

\* one round of the loop of _processMessages; the loop is left running
\* unless the message's callback was called
DrainStep(e) ==
  IF e.messages = <<>> THEN [e EXCEPT !.processing = FALSE, !.running = FALSE]
  ELSE ProcessMessage([e EXCEPT !.messages = Tail(@), !.dispatched = @ + 1,
                                !.running = TRUE],
                      Head(e.messages))

\* the rest of the turn: the loop goes on until a callback is called or the
\* queue is empty
RECURSIVE Drain(_)
Drain(e) == IF e.running THEN Drain(DrainStep(e)) ELSE e

\* _processMessages up to its first await
ProcessMessages(e) == DrainStep([e EXCEPT !.processing = TRUE])

\* _enqueueMessage without the test of this.stopped
EnqueueAfterStop(e, type, data) ==
  LET e1 == [e EXCEPT !.messages = Append(@, [type |-> type, data |-> data])]
  IN IF ~e1.processing \/ ~e1.paused THEN ProcessMessages(e1) ELSE e1

\* _enqueueMessage, to its return
EnqueueMessage(e, type, data) ==
  IF e.stopped THEN [e EXCEPT !.dropped = @ + 1]
  ELSE LET e1 == [e EXCEPT !.messages = Append(@, [type |-> type, data |-> data])]
       IN IF ~e1.processing \/ ~e1.paused THEN ProcessMessages(e1) ELSE e1

----------------------------------------------------------------------------
(* Event intake *)

\* candle.symbol = symbol; candle.tf = timeframe
StampCandle(candle) ==
  [mts |-> candle.mts, open |-> candle.open, close |-> candle.close,
   high |-> candle.high, low |-> candle.low, volume |-> candle.volume,
   symbol |-> Symbol, tf |-> Timeframe]

\* the subscription of execute() is what makes the exchange send candles and trades
Subscribed == phase = "live"

\* the environment raises one more event; execute() is called in the turn
\* that constructs the engine, before any event
Raised == phase # "fresh" /\ events > 0

\* candle events the socket may deliver: an update of any bar that has
\* opened, or a snapshot
CandleEvents ==
  {<<RealCandle(m, c)>> :
     m \in Aligned(Max(0, AlignRangeMts(now) - (MaxLag * CandleWidth)), now), c \in {1, 2}}
    \cup {<<RealCandle(0, 1), RealCandle(CandleWidth, 1)>>}

TradeEvents ==
  {<<[id |-> i, mts |-> now, price |-> 1]>> : i \in 1..2}
    \cup {<<[id |-> 1, mts |-> now, price |-> 1], [id |-> 2, mts |-> now, price |-> 1]>>}

Wallet(currency, balance) ==
  [currency |-> currency, type |-> "exchange", balance |-> balance,
   balanceAvailable |-> balance]

WalletSnapshots == {[collection |-> <<>>], [collection |-> <<Wallet("USD", 1)>>]}

WalletUpdates == {Wallet("USD", 2), Wallet("BTC", 1)}

\* ws2Manager.onWS('candles', { key: candleKey }, ...)
OnCandles ==
  /\ Subscribed
  /\ Raised
  /\ \E candles \in CandleEvents :
       IF Len(candles) > 1 THEN Becomes(Cur)
       ELSE Becomes(Drain(EnqueueMessage(Cur, "candle", StampCandle(candles[1]))))
  /\ events' = events - 1
  /\ UNCHANGED <<phase, now, nFail>>

\* ws2Manager.onWS('trades', { symbol }, ...)
OnTrades ==
  /\ Subscribed
  /\ Raised
  /\ \E trades \in TradeEvents :
       IF Len(trades) > 1 THEN Becomes(Cur)
       ELSE LET e1 == IF IncludeTrades THEN EnqueueMessage(Cur, "trade", trades[1])
                      ELSE Cur
            IN Becomes(Drain(UpdatePriceFeed(e1, trades[1].mts)))
  /\ events' = events - 1
  /\ UNCHANGED <<phase, now, nFail>>

\* ws2Manager.onWS(ORDER_CLOSE_EVENT, {}, ...)
OnOrderClose ==
  /\ Raised
  /\ Becomes(Drain(EnqueueMessage(Cur, ORDER_CLOSE_EVENT, [id |-> 1])))
  /\ events' = events - 1
  /\ UNCHANGED <<phase, now, nFail>>

\* ws2Manager.onWS(WALLET_SNAPSHOT_EVENT, {}, ...)
OnWalletSnapshot ==
  /\ Raised
  /\ \E data \in WalletSnapshots :
       Becomes(Drain(EnqueueMessage(Cur, WALLET_SNAPSHOT_EVENT, data)))
  /\ events' = events - 1
  /\ UNCHANGED <<phase, now, nFail>>

\* ws2Manager.onWS(WALLET_UPDATE_EVENT, {}, ...)
OnWalletUpdate ==
  /\ Raised
  /\ \E data \in WalletUpdates :
       Becomes(Drain(EnqueueMessage(Cur, WALLET_UPDATE_EVENT, data)))
  /\ events' = events - 1
  /\ UNCHANGED <<phase, now, nFail>>

----------------------------------------------------------------------------
(* Strategy callbacks settle *)

\* the rest of the handler that awaits pending[i], once the callback returned
Continue(e, t) ==
  CASE t.cb = "onCandle" ->
         LET e1 == SetNextCandleTimeout(
                     EmitStrategyExecutionResults(
                       [e EXCEPT !.strategyState = Result(t), !.lastCandle = t.data],
                       "candle", t.data))
         IN IF t.origin = "drain" THEN Drain([e1 EXCEPT !.running = TRUE]) ELSE e1
    [] t.cb = "onTrade" ->
         Drain([EmitStrategyExecutionResults(
                  [e EXCEPT !.strategyState = Result(t), !.lastTrade = t.data],
                  "trade", t.data)
                EXCEPT !.running = TRUE])
    [] t.cb = "onOrder" ->
         Drain([e EXCEPT !.strategyState = Result(t), !.running = TRUE])

\* the rest of the handler that awaits pending[i], once the callback threw:
\* the drain loop is left and _enqueueMessage's catch emits the error; a
\* closure timer's callback has no catch
Reject(e, t) ==
  IF t.origin = "drain"
  THEN [e EXCEPT !.errors = Append(@, <<t.cb, Key(t)>>)]
  ELSE e

DrainCallbacks == {"onCandle", "onTrade", "onOrder"}

\* onCandle, onTrade or onOrder returns
CallbackReturns ==
  /\ \E i \in InFlight(DrainCallbacks) :
       Becomes(Continue([Cur EXCEPT !.pending = RemoveAt(@, i)], pending[i]))
  /\ UNCHANGED <<phase, now, events, nFail>>

\* onCandle, onTrade or onOrder throws
CallbackFails ==
  /\ nFail < MaxFail
  /\ \E i \in InFlight(DrainCallbacks) :
       Becomes(Reject([Cur EXCEPT !.pending = RemoveAt(@, i)], pending[i]))
  /\ nFail' = nFail + 1
  /\ UNCHANGED <<phase, now, events>>

----------------------------------------------------------------------------
(* Closure timer fires *)

\* _createNextCandleFromLast without the test of this.paused and this.stopped
CreateNextCandleAlways(e, cWidth) ==
  LET sinceLastCandle == now - e.lastCandle.mts
      timeToWaitForCandle == CalculateTimeToWaitForCandle(cWidth)
  IN IF sinceLastCandle >= timeToWaitForCandle
     THEN ProcessCandleData(e,
            CopyCandleWithNewTime(e.lastCandle, e.lastCandle.mts + cWidth), "timer")
     ELSE e

\* _createNextCandleFromLast
CreateNextCandleFromLast(e, cWidth) ==
  IF e.paused \/ e.stopped THEN [e EXCEPT !.suppressed = @ + 1]
  ELSE LET sinceLastCandle == now - e.lastCandle.mts
           timeToWaitForCandle == CalculateTimeToWaitForCandle(cWidth)
       IN IF sinceLastCandle >= timeToWaitForCandle
          THEN ProcessCandleData(e,
                 CopyCandleWithNewTime(e.lastCandle, e.lastCandle.mts + cWidth), "timer")
          ELSE e

\* the callback of setTimeout runs
TimerFires ==
  /\ nextCandleTimeout # Undefined
  /\ now >= nextCandleTimeout
  /\ Becomes(CreateNextCandleFromLast([Cur EXCEPT !.nextCandleTimeout = Undefined],
                                      CandleWidth))
  /\ UNCHANGED <<phase, now, events, nFail>>

\* the clock advances; a timer that is due fires before it does
Tick ==
  /\ phase # "fresh"
  /\ now < MaxTime
  /\ nextCandleTimeout # Undefined => now < nextCandleTimeout
  /\ now' = now + 1
  /\ UNCHANGED <<messages, lastCandle, lastTrade, processing, stopped, paused,
                 pausedMts, lastPriceFeedUpdate, strategyState, wallets,
                 nextCandleTimeout, pending, phase, errors, onCandleSeen,
                 onTradeSeen, dispatched, dropped, suppressed, events, nFail,
                 candleSeed, candlePrice, position, listening, input, output,
                 socket>>
  /\ emitted' = <<>>

----------------------------------------------------------------------------
(* Pause and resume *)

\* the socket raises an event
Hears(e, event) == IF e.socket = Untracked THEN e ELSE [e EXCEPT !.socket = event]

\* ws2Manager.onWS('close', {}, ...)
OnWSClose ==
  /\ Raised
  /\ LET e == Hears(Cur, "close")
     IN IF paused THEN Becomes(e)
        ELSE Becomes([e EXCEPT !.pausedMts.pausedOn = now, !.paused = TRUE])
  /\ events' = events - 1
  /\ UNCHANGED <<phase, now, nFail>>

\* a REST request is handed to the throttle
Fetch(e, origin, query) ==
  [e EXCEPT !.pending = Append(@, [cb |-> "candles", origin |-> origin, data |-> query,
                                   arg |-> Null, state |-> Null,
                                   lastCandle |-> Null, lastTrade |-> Null])]

\* _.isFinite
IsFinite(x) == x # Undefined

\* candle.toJS()
ToJS(candle) ==
  [mts |-> candle.mts, open |-> candle.open, close |-> candle.close,
   high |-> candle.high, low |-> candle.low, volume |-> candle.volume]

\* data.mts of a queued message
MtsOf(msg) == IF "mts" \in DOMAIN msg.data THEN msg.data.mts ELSE Undefined

\* insertion of msg behind the messages that are not greater
RECURSIVE InsertByMts(_, _)
InsertByMts(sorted, msg) ==
  IF sorted = <<>> THEN <<msg>>
  ELSE IF MtsOf(sorted[Len(sorted)]) <= MtsOf(msg) THEN Append(sorted, msg)
  ELSE Append(InsertByMts(SubSeq(sorted, 1, Len(sorted) - 1), msg), sorted[Len(sorted)])

RECURSIVE StableSort(_)
StableSort(msgs) ==
  IF msgs = <<>> THEN <<>>
  ELSE InsertByMts(StableSort(SubSeq(msgs, 1, Len(msgs) - 1)), msgs[Len(msgs)])

RECURSIVE Reorderings(_)
Reorderings(msgs) ==
  IF msgs = <<>> THEN {<<>>}
  ELSE UNION {{<<msgs[k]>> \o rest : rest \in Reorderings(RemoveAt(msgs, k))} :
                k \in 1..Len(msgs)}

\* this.messages.sort((a, b) => a.data.mts - b.data.mts): a stable sort; when a
\* message has no data.mts the comparator answers NaN and the order is the
\* implementation's choice
SortedByMts(msgs) ==
  IF \A k \in 1..Len(msgs) : MtsOf(msgs[k]) # Undefined
  THEN {StableSort(msgs)}
  ELSE Reorderings(msgs)

\* a resume that keeps the back-fill messages only
ResumeBackfillOnly(e, sorted) ==
  LET Test(msg) == msg.type = "candle" /\ "symbol" \notin DOMAIN msg.data
  IN SetNextCandleTimeout(
       [e EXCEPT !.messages = SelectSeq(sorted, Test), !.paused = FALSE,
                 !.pausedMts = NoPausedMts])

\* _onWSOpen after the back-fill candles were fetched
Resume(e, sorted) ==
  SetNextCandleTimeout(
    [e EXCEPT !.messages = sorted, !.paused = FALSE, !.pausedMts = NoPausedMts])

\* ws2Manager.onWS('open', {}, ...) up to the REST request of
\* _fetchCandlesForPausedDuration
OnWSOpen ==
  /\ Raised
  /\ IF ~paused THEN Becomes(Hears(Cur, "open"))
     ELSE LET e1 == [Hears(Cur, "open") EXCEPT !.pausedMts.resumedOn = now]
              start == e1.pausedMts.pausedOn
              end == e1.pausedMts.resumedOn
          IN IF ~IsFinite(start) \/ ~IsFinite(end)
             THEN \E sorted \in SortedByMts(messages) : Becomes(Resume(e1, sorted))
             ELSE Becomes(Fetch(e1, "open", [start |-> start - PausedThreshold,
                                             end |-> end]))
  /\ events' = events - 1
  /\ UNCHANGED <<phase, now, nFail>>

BackfillMessages(candles) ==
  [k \in 1..Len(candles) |-> [type |-> "candle", data |-> ToJS(candles[k])]]

\* the back-fill request of a resume answers
BackfillReturns ==
  /\ \E i \in InFlight({"candles"}) :
       /\ pending[i].origin = "open"
       /\ \E candleResponse \in RestResponses(pending[i].data) :
            LET query == pending[i].data
                candles == PadCandles(candleResponse, CandleWidth, query.start, query.end)
                unshifted == BackfillMessages(candles) \o messages
            IN /\ Len(unshifted) <= MaxQueue
               /\ \E sorted \in SortedByMts(unshifted) :
                 Becomes(Resume([Cur EXCEPT !.pending = RemoveAt(@, i)], sorted))
  /\ UNCHANGED <<phase, now, events, nFail>>

\* the back-fill request of a resume fails: _onWSOpen rejects at its await
BackfillFails ==
  /\ nFail < MaxFail
  /\ \E i \in InFlight({"candles"}) :
       /\ pending[i].origin = "open"
       /\ Becomes([Cur EXCEPT !.pending = RemoveAt(@, i)])
  /\ nFail' = nFail + 1
  /\ UNCHANGED <<phase, now, events>>

----------------------------------------------------------------------------
(* Lifecycle *)

\* the window of seed page i
SeedQuery(seedStart, alignedStartTs, i) ==
  [start |-> seedStart + (i * SeedWindowCandles * CandleWidth),
   end |-> Min(seedStart + ((i + 1) * SeedWindowCandles * CandleWidth), alignedStartTs),
   limit |-> CANDLE_FETCH_LIMIT,
   seedStart |-> seedStart, alignedStartTs |-> alignedStartTs, page |-> i]

SeedPages == Ceil(candleSeed, CANDLE_FETCH_LIMIT)

\* _seedCandles from the candles left of page query.page, up to the next
\* onSeedCandle call, the next REST request or its end
RECURSIVE SeedCandles(_, _, _)
SeedCandles(e, candles, query) ==
  IF candles # <<>>
  THEN LET candle == Head(candles)
       IN IF e.lastCandle # Null /\ e.lastCandle.mts >= candle.mts
          THEN SeedCandles(e, Tail(candles), query)
          ELSE Call(e, "onSeedCandle", "execute",
                    [candle |-> StampCandle(candle), rest |-> Tail(candles),
                     query |-> query],
                    StampCandle(candle))
  ELSE IF query.page + 1 < SeedPages
  THEN Fetch(e, "seed", SeedQuery(query.seedStart, query.alignedStartTs, query.page + 1))
  ELSE [SetNextCandleTimeout(e) EXCEPT !.seeded = TRUE]

\* execute() subscribing without awaiting _seedCandles
SubscribedEarly(e) ==
  /\ Becomes(e)
  /\ phase' = IF e.threw THEN "failed" ELSE "live"

\* execute() goes on after _seedCandles: rejected when it threw, else the
\* subscription is issued and the perf manager is listened to
Seeded(e) ==
  /\ Becomes(e)
  /\ phase' = IF e.threw THEN "failed"
              ELSE IF e.seeded THEN "live"
              ELSE phase

\* execute() up to the first REST request of _seedCandles
Execute ==
  /\ phase = "fresh"
  /\ LET alignedStartTs == AlignRangeMts(now)
         seedStart == alignedStartTs - (candleSeed * CandleWidth)
     IN IF 0 < SeedPages
        THEN /\ Becomes(Fetch(Cur, "seed", SeedQuery(seedStart, alignedStartTs, 0)))
             /\ phase' = "seeding"
        ELSE Seeded([SetNextCandleTimeout(Cur) EXCEPT !.seeded = TRUE])
  /\ UNCHANGED <<now, events, nFail>>

\* the REST request of a seed page answers
SeedFetchReturns ==
  /\ \E i \in InFlight({"candles"}) :
       /\ pending[i].origin = "seed"
       /\ \E candleResponse \in RestResponses(pending[i].data) :
            LET query == pending[i].data
                candles == PadCandles(candleResponse, CandleWidth, query.start, query.end)
            IN Seeded(SeedCandles([Cur EXCEPT !.pending = RemoveAt(@, i)], candles, query))
  /\ UNCHANGED <<now, events, nFail>>

\* onSeedCandle returns
SeedCandleReturns ==
  /\ \E i \in InFlight({"onSeedCandle"}) :
       LET t == pending[i]
       IN Seeded(SeedCandles([Cur EXCEPT !.pending = RemoveAt(@, i),
                                         !.strategyState = Result(t),
                                         !.lastCandle = t.data.candle],
                             t.data.rest, t.data.query))
  /\ UNCHANGED <<now, events, nFail>>

\* a seed page's REST request fails and the request is made again
SeedFetchRetried ==
  /\ nFail < MaxFail
  /\ \E i \in InFlight({"candles"}) :
       /\ pending[i].origin = "seed"
       /\ Becomes(Fetch([Cur EXCEPT !.pending = RemoveAt(@, i)], "seed", pending[i].data))
  /\ phase' = phase
  /\ nFail' = nFail + 1
  /\ UNCHANGED <<now, events>>

\* a seed page's REST request fails: _seedCandles throws and execute() rejects
SeedFetchFails ==
  /\ nFail < MaxFail
  /\ \E i \in InFlight({"candles"}) :
       /\ pending[i].origin = "seed"
       /\ Becomes([Cur EXCEPT !.pending = RemoveAt(@, i)])
  /\ phase' = "failed"
  /\ nFail' = nFail + 1
  /\ UNCHANGED <<now, events>>

\* onSeedCandle throws: _seedCandles throws and execute() rejects
SeedCandleFails ==
  /\ nFail < MaxFail
  /\ \E i \in InFlight({"onSeedCandle"}) :
       Becomes([Cur EXCEPT !.pending = RemoveAt(@, i)])
  /\ phase' = "failed"
  /\ nFail' = nFail + 1
  /\ UNCHANGED <<now, events>>

\* stopExecution after onEnd: the open position, if any, is closed
StopAfterOnEnd(e, openPosition) ==
  IF openPosition THEN Call(e, "closeOpenPositions", "stop", Null, Null)
  ELSE [e EXCEPT !.stopped = TRUE]

\* stopExecution() up to its first await; the strategy may define onEnd or
\* not and may hold an open position or not
StopExecution ==
  /\ Raised
  /\ \E onEnd, openPosition \in BOOLEAN :
       IF onEnd THEN Becomes(Call(Cur, "onEnd", "stop", Null, Null))
       ELSE Becomes(StopAfterOnEnd(Cur, openPosition))
  /\ events' = events - 1
  /\ UNCHANGED <<phase, now, nFail>>

\* onEnd or closeOpenPositions returns
StopCallbackReturns ==
  /\ \E i \in InFlight({"onEnd", "closeOpenPositions"}) :
       LET t == pending[i]
           e1 == [Cur EXCEPT !.pending = RemoveAt(@, i), !.strategyState = Result(t)]
       IN IF t.cb = "onEnd"
          THEN \E openPosition \in BOOLEAN : Becomes(StopAfterOnEnd(e1, openPosition))
          ELSE Becomes([e1 EXCEPT !.stopped = TRUE])
  /\ UNCHANGED <<phase, now, events, nFail>>

\* onEnd or closeOpenPositions throws: stopExecution() rejects
StopCallbackFails ==
  /\ nFail < MaxFail
  /\ \E i \in InFlight({"onEnd", "closeOpenPositions"}) :
       Becomes([Cur EXCEPT !.pending = RemoveAt(@, i)])
  /\ nFail' = nFail + 1
  /\ UNCHANGED <<phase, now, events>>

\* execute() attaches the listener of the perf manager after the subscription
PerfListening == phase = "live"

\* perfManager.on('update', ...): the price of the price feed is emitted
OnPerfUpdate ==
  /\ PerfListening
  /\ Raised
  /\ Becomes(EmitStrategyExecutionResults(Cur, "perf", [price |-> 1]))
  /\ events' = events - 1
  /\ UNCHANGED <<phase, now, nFail>>

\* invoke(strategyHandler) up to the call of the handler
Invoke ==
  /\ Raised
  /\ Becomes(Call(Cur, "strategyHandler", "invoke", Null, Null))
  /\ events' = events - 1
  /\ UNCHANGED <<phase, now, nFail>>

\* the handler returns: this.strategyState = await strategyHandler(...)
InvokeReturns ==
  /\ \E i \in InFlight({"strategyHandler"}) :
       Becomes([Cur EXCEPT !.pending = RemoveAt(@, i),
                           !.strategyState = Result(pending[i])])
  /\ UNCHANGED <<phase, now, events, nFail>>

\* the handler throws: invoke() rejects
InvokeFails ==
  /\ nFail < MaxFail
  /\ \E i \in InFlight({"strategyHandler"}) :
       Becomes([Cur EXCEPT !.pending = RemoveAt(@, i)])
  /\ nFail' = nFail + 1
  /\ UNCHANGED <<phase, now, events>>

----------------------------------------------------------------------------

Next ==
  \/ Execute
  \/ SeedFetchReturns
  \/ SeedCandleReturns
  \/ SeedFetchFails
  \/ SeedCandleFails
  \/ OnCandles
  \/ OnTrades
  \/ OnOrderClose
  \/ OnWalletSnapshot
  \/ OnWalletUpdate
  \/ CallbackReturns
  \/ CallbackFails
  \/ TimerFires
  \/ OnWSClose
  \/ OnWSOpen
  \/ BackfillReturns
  \/ BackfillFails
  \/ StopExecution
  \/ StopCallbackReturns
  \/ StopCallbackFails
  \/ Invoke
  \/ InvokeReturns
  \/ InvokeFails
  \/ Tick

Spec == Init /\ [][Next]_vars

\* The engine on a quiet account: the environment raises one event more, but
\* only order closes, socket closes and stopExecution calls; no call fails and
\* no time passes.
InitQuiet ==
  /\ Constructed
  /\ input = Null
  /\ output = Null
  /\ now \in InitTimes
  /\ events = MaxEvents + 1
  /\ candleSeed = CandleSeed
  /\ candlePrice = NoCandlePrice
  /\ position = FALSE
  /\ listening = FALSE
  /\ socket = Untracked
  /\ emitted = <<>>

NextQuiet ==
  \/ Execute
  \/ SeedFetchReturns
  \/ SeedCandleReturns
  \/ OnOrderClose
  \/ OnWSClose
  \/ CallbackReturns
  \/ StopExecution
  \/ StopCallbackReturns

SpecQuiet == InitQuiet /\ [][NextQuiet]_vars

\* The start of an engine whose listeners the host attached: execute() with a
\* seed of up to MaxSeed candles, of which a page request may fail, and the
\* candles and perf updates that follow.  The clock stands still.
SeedTimes == {4 * CandleWidth, (4 * CandleWidth) + 1}

InitSeed ==
  /\ Constructed
  /\ input = Null
  /\ output = Null
  /\ now \in SeedTimes
  /\ events = MaxEvents - 1
  /\ candleSeed \in 0..MaxSeed
  /\ candlePrice = NoCandlePrice
  /\ position = FALSE
  /\ listening = TRUE
  /\ socket = Untracked
  /\ emitted = <<>>

NextSeed ==
  \/ Execute
  \/ SeedFetchReturns
  \/ SeedCandleReturns
  \/ SeedFetchFails
  \/ OnCandles
  \/ OnPerfUpdate
  \/ CallbackReturns
  \/ TimerFires

SpecSeed == InitSeed /\ [][NextSeed]_vars

\* An engine on a quiet socket whose host listens to the result events: the
\* strategy may hold a position and may configure candlePrice
CandlePrices == {NoCandlePrice, "close"}

InitEmit ==
  /\ Constructed
  /\ input = Null
  /\ output = Null
  /\ now \in InitTimes
  /\ events = MaxEvents
  /\ candleSeed = CandleSeed
  /\ candlePrice \in CandlePrices
  /\ position \in BOOLEAN
  /\ listening = TRUE
  /\ socket = Untracked
  /\ emitted = <<>>

NextEmit ==
  \/ Execute
  \/ SeedFetchReturns
  \/ SeedCandleReturns
  \/ OnCandles
  \/ OnTrades
  \/ CallbackReturns
  \/ TimerFires
  \/ Tick

SpecEmit == InitEmit /\ [][NextEmit]_vars

\* An engine whose host keeps track of the socket, which is open at the
\* start; no request and no callback fails
InitSocket ==
  /\ Constructed
  /\ input = Null
  /\ output = Null
  /\ now \in InitTimes
  /\ events = MaxEvents
  /\ candleSeed = CandleSeed
  /\ candlePrice = NoCandlePrice
  /\ position = FALSE
  /\ listening = FALSE
  /\ emitted = <<>>
  /\ socket = "open"

NextSocket ==
  \/ Execute
  \/ SeedFetchReturns
  \/ SeedCandleReturns
  \/ OnCandles
  \/ OnWSClose
  \/ OnWSOpen
  \/ BackfillReturns
  \/ CallbackReturns
  \/ TimerFires
  \/ Tick

SpecSocket == InitSocket /\ [][NextSocket]_vars

\* An engine whose strategy callbacks and REST requests do not fail and
\* which is not stopped, with one event more than under Spec: a callback that
\* was called returns
InitFlow ==
  /\ Constructed
  /\ input = Null
  /\ output = Null
  /\ now \in InitTimes
  /\ events = MaxEvents + 1
  /\ candleSeed = CandleSeed
  /\ candlePrice = NoCandlePrice
  /\ position = FALSE
  /\ listening = FALSE
  /\ emitted = <<>>
  /\ socket = Untracked

NextFlow ==
  \/ Execute
  \/ SeedFetchReturns
  \/ SeedCandleReturns
  \/ OnCandles
  \/ OnOrderClose
  \/ OnWSClose
  \/ OnWSOpen
  \/ BackfillReturns
  \/ CallbackReturns
  \/ TimerFires

\* weak fairness of CallbackReturns, which is enabled exactly when a callback
\* of DrainCallbacks is in flight
CallbacksReturn ==
  \/ []<>(InFlight(DrainCallbacks) = {})
  \/ []<><<CallbackReturns>>_vars

SpecFlow == InitFlow /\ [][NextFlow]_vars /\ CallbacksReturn

----------------------------------------------------------------------------
(* _padCandles applied on its own *)

\* the ascending lists of real candles at the buckets of S
RECURSIVE RealCandleLists(_)
RealCandleLists(S) ==
  IF S = {} THEN {<<>>}
  ELSE LET m == CHOOSE x \in S : \A y \in S : x <= y
       IN UNION {{rest, <<RealCandle(m, 1)>> \o rest, <<RealCandle(m, 2)>> \o rest} :
                   rest \in RealCandleLists(S \ {m})}

\* the calls _padCandles(candles, width, {start, end}) with aligned start and
\* end and real candles at aligned buckets of [start, end)
PadInputs ==
  UNION {{[candles |-> c, start |-> s, end |-> e] :
            c \in RealCandleLists(Aligned(s, e - CandleWidth))} :
           <<s, e>> \in {<<s, e>> \in Aligned(0, CandleWidth) \X Aligned(0, (MaxPad + 1) * CandleWidth) :
                           s <= e /\ e - s <= MaxPad * CandleWidth}}

InitPad ==
  /\ Constructed
  /\ now = 0
  /\ events = 1
  /\ candleSeed = CandleSeed
  /\ candlePrice = NoCandlePrice
  /\ position = FALSE
  /\ listening = FALSE
  /\ socket = Untracked
  /\ emitted = <<>>
  /\ input \in PadInputs
  /\ output = Null

ApplyPadCandles ==
  /\ output = Null
  /\ output' = [value |-> PadCandles(input.candles, CandleWidth, input.start, input.end)]
  /\ UNCHANGED <<engineVars, phase, now, events, nFail, candleSeed, candlePrice,
                 position, listening, emitted, input>>

NextPad == ApplyPadCandles

SpecPad == InitPad /\ [][NextPad]_vars

----------------------------------------------------------------------------
(* _processWalletData applied on its own *)

WalletKeys == {<<"USD", "exchange">>, <<"BTC", "exchange">>, <<"USD", "margin">>}

\* a wallet as the exchange reports it
RealWallet(key, balance, available) ==
  [currency |-> key[1], type |-> key[2], balance |-> balance,
   balanceAvailable |-> available, unsettledInterest |-> 0]

\* a wallet as the engine keeps it
KeptWallet(key, balance) ==
  [currency |-> key[1], type |-> key[2], balance |-> balance, balanceAvailable |-> balance]

\* the wallet sets of up to MaxWallets entries, one entry per (currency, type)
WalletSets ==
  UNION {{w \in [1..n -> {KeptWallet(k, b) : k \in WalletKeys, b \in 1..2}] :
            \A i, j \in 1..n :
              (w[i].currency = w[j].currency /\ w[i].type = w[j].type) => i = j} :
           n \in 0..MaxWallets}

WalletMessages ==
  {[type |-> WALLET_UPDATE_EVENT, data |-> RealWallet(k, b, a)] :
     k \in WalletKeys, b \in {0, 3}, a \in {0, 4}}
    \cup {[type |-> WALLET_SNAPSHOT_EVENT, data |-> [collection |-> c]] :
            c \in {<<>>, <<RealWallet(<<"USD", "exchange">>, 3, 4)>>,
                   <<RealWallet(<<"BTC", "exchange">>, 3, 0),
                     RealWallet(<<"USD", "margin">>, 0, 4)>>}}
    \cup {[type |-> WALLET_SNAPSHOT_EVENT, data |-> [id |-> 1]]}

InitWallet ==
  /\ Constructed
  /\ now = 0
  /\ events = 1
  /\ candleSeed = CandleSeed
  /\ candlePrice = NoCandlePrice
  /\ position = FALSE
  /\ listening = FALSE
  /\ socket = Untracked
  /\ emitted = <<>>
  /\ input \in {[wallets |-> w, msg |-> m] : w \in WalletSets, m \in WalletMessages}
  /\ output = Null

ApplyProcessWalletData ==
  /\ output = Null
  /\ output' = [value |-> ProcessWalletData([Cur EXCEPT !.wallets = input.wallets],
                                            input.msg.data, input.msg.type).wallets]
  /\ UNCHANGED <<engineVars, phase, now, events, nFail, candleSeed, candlePrice,
                 position, listening, emitted, input>>

NextWallet == ApplyProcessWalletData

SpecWallet == InitWallet /\ [][NextWallet]_vars

----------------------------------------------------------------------------
(* The insertion of the back-fill messages by _onWSOpen applied on its own *)

\* messages that may wait in the queue when the socket re-opens
ResidualMessages ==
  {[type |-> "candle", data |-> StampCandle(RealCandle(2 * CandleWidth, 1))],
   [type |-> "trade", data |-> [id |-> 1, mts |-> (2 * CandleWidth) + 1, price |-> 1]],
   [type |-> ORDER_CLOSE_EVENT, data |-> [id |-> 1]],
   [type |-> WALLET_UPDATE_EVENT, data |-> Wallet("USD", 2)]}

\* the queues of up to MaxResidual messages
ResidualQueues == UNION {[1..n -> ResidualMessages] : n \in 0..MaxResidual}

\* what _fetchCandlesForPausedDuration may return for the window of three bars
\* that starts at CandleWidth
BackfillCandles ==
  {PadCandles(c, CandleWidth, CandleWidth, 4 * CandleWidth) :
     c \in RealCandleLists(Aligned(CandleWidth, 3 * CandleWidth))}

InitResume ==
  /\ Constructed
  /\ now = 0
  /\ events = 1
  /\ candleSeed = CandleSeed
  /\ candlePrice = NoCandlePrice
  /\ position = FALSE
  /\ listening = FALSE
  /\ socket = Untracked
  /\ emitted = <<>>
  /\ input \in {[messages |-> r, candles |-> c] : r \in ResidualQueues, c \in BackfillCandles}
  /\ output = Null

\* this.messages.unshift(...candleDataMessage); this.messages.sort(...)
ApplyResumeInsertion ==
  /\ output = Null
  /\ \E sorted \in SortedByMts(BackfillMessages(input.candles) \o input.messages) :
       output' = [value |-> sorted]
  /\ UNCHANGED <<engineVars, phase, now, events, nFail, candleSeed, candlePrice,
                 position, listening, emitted, input>>

NextResume == ApplyResumeInsertion

SpecResume == InitResume /\ [][NextResume]_vars

----------------------------------------------------------------------------
(* Claims *)

\* a drain loop is running: it waits for the callback of the message it took
DrainInFlight(p) == {i \in 1..Len(p) : p[i].origin = "drain"}

\* this step is the resume of _onWSOpen after request pending[i] answered
Resumed(i) ==
  /\ pending[i].cb = "candles" /\ pending[i].origin = "open"
  /\ pending' = RemoveAt(pending, i)
  /\ paused /\ ~paused'

\* this step is the failure of pending[i]
Failed(i) == nFail' = nFail + 1 /\ pending' = RemoveAt(pending, i)

\* a back-fill candle message: toJS() copies carry no symbol
IsBackfill(msg) == msg.type = "candle" /\ "symbol" \notin DOMAIN msg.data

\* C1: at most one strategy callback (onSeedCandle, onCandle, onTrade, onOrder,
\* onEnd) has been called and has not yet returned
C1_OneCallbackInFlight == Cardinality(InFlight(StrategyCallbacks)) <= 1

\* C2: the mts of the candles passed to onCandle strictly increase
C2_OnCandleStrictlyIncreasing ==
  Len(onCandleSeen) = 2 => onCandleSeen[1] < onCandleSeen[2]

\* C3: the ids of the trades passed to onTrade strictly increase
C3_OnTradeStrictlyIncreasing ==
  Len(onTradeSeen) = 2 => onTradeSeen[1] < onTradeSeen[2]

\* C4: each candle passed to onCandle is exactly one timeframe width after the
\* candle passed to onCandle before it
C4_OnCandleGapFree ==
  Len(onCandleSeen) = 2 => onCandleSeen[2] = onCandleSeen[1] + CandleWidth

\* C5: messages leave the queue at its head, and the callback of a message is
\* started only when the callback of every message dequeued before it has
\* returned and its state was adopted: two drain callbacks are never in flight
C5_CallbacksInEnqueueOrder == Cardinality(DrainInFlight(pending)) <= 1

\* C6: while paused is true no message is taken from the queue
C6_FrozenWhilePaused == [][paused /\ paused' => dispatched' = dispatched]_vars

\* C7: when a resume puts its back-fill candles in the queue, no candle with
\* mts > resumedOn has been processed: the back-fill candles come first
C7_BackfillBeforeLive ==
  [][\A i \in 1..Len(pending) :
       Resumed(i) => (lastCandle = Null \/ lastCandle.mts <= pending[i].data.end)]_vars

\* C8: a resume that puts back-fill candles in the queue leaves a drain loop
\* running, so that they are dispatched without a further enqueue
C8_ResumeDrains ==
  [][\A i \in 1..Len(pending) :
       (Resumed(i) /\ \E k \in 1..Len(messages') : IsBackfill(messages'[k]))
         => DrainInFlight(pending') # {}]_vars

\* C9: when the back-fill request of a resume fails the engine resumes all the
\* same: paused is false, pausedMts is cleared, the closure timer is armed and
\* the queue is as it was
C9_ResumesWhenBackfillFails ==
  [][\A i \in 1..Len(pending) :
       (Failed(i) /\ pending[i].cb = "candles" /\ pending[i].origin = "open")
         => /\ ~paused'
            /\ pausedMts' = NoPausedMts
            /\ nextCandleTimeout' # Undefined
            /\ messages' = messages]_vars

\* C10: when onCandle, onTrade or onOrder, called by the drain loop, fails, one
\* error event carrying the failure is emitted and strategyState, lastCandle
\* and lastTrade have the values they had when the failed callback was called
C10_FailureKeepsLastGoodState ==
  [][\A i \in 1..Len(pending) :
       (Failed(i) /\ pending[i].origin = "drain")
         => /\ errors' = Append(errors, <<pending[i].cb, Key(pending[i])>>)
            /\ strategyState' = pending[i].state
            /\ lastCandle' = pending[i].lastCandle
            /\ lastTrade' = pending[i].lastTrade]_vars

\* C11: when a callback of the drain loop fails, the loop goes on: a message
\* that is in the queue is taken from it in the same turn, and when the queue
\* is empty and no other drain runs, processing is false again
C11_DrainContinuesAfterFailure ==
  [][\A i \in 1..Len(pending) :
       (Failed(i) /\ pending[i].origin = "drain")
         => IF messages # <<>> THEN dispatched' > dispatched
            ELSE DrainInFlight(pending') # {} \/ ~processing']_vars

\* this step calls one of the callbacks cbs
Started(cbs) ==
  /\ pending' # <<>>
  /\ pending'[Len(pending')].cb \in cbs
  /\ \/ Len(pending') > Len(pending)
     \/ Len(pending') = Len(pending) /\ pending' # pending

\* C12: once stopExecution has set stopped, no onCandle, onTrade or onOrder call
\* is started, neither by a drain loop for the messages left in the queue nor
\* by a closure timer
C12_NoCallbackAfterStop == [][stopped => ~Started(DrainCallbacks)]_vars

\* this step is the return of pending[i] to its caller
Returned(i) ==
  /\ Len(pending') >= Len(pending) - 1
  /\ SubSeq(pending', 1, Len(pending) - 1) = RemoveAt(pending, i)
  /\ pending' # pending
  /\ nFail' = nFail

\* C13: a stopExecution call made after the engine has stopped changes nothing:
\* when its onEnd or closeOpenPositions call returns, the strategy state and
\* the flags are what the first call left
C13_StopIsIdempotent ==
  [][\A i \in 1..Len(pending) :
       (stopped /\ pending[i].origin = "stop" /\ Returned(i))
         => /\ strategyState' = strategyState
            /\ stopped' /\ paused' = paused /\ processing' = processing]_vars

\* C14: stopped is a latch: once true it stays true, and an event raised after
\* that (a candle, a trade, an order close, a wallet snapshot or update) adds
\* nothing to the queue and starts no drain
C14_StoppedIsTerminal ==
  [][stopped => /\ stopped'
                /\ events' < events
                     => /\ messages' = messages
                        /\ dispatched' = dispatched
                        /\ processing' = processing
                        /\ ~Started(DrainCallbacks)]_vars

\* a message was refused by the stopped engine
C14_Witness == stopped /\ dropped > 0

\* the bar of lastCandle is overdue: the engine is live and 1.5 candle widths
\* have passed since lastCandle.mts
Overdue ==
  /\ phase = "live" /\ ~paused /\ ~stopped
  /\ lastCandle # Null
  /\ now >= lastCandle.mts + (3 * CandleWidth) \div 2

\* onCandle has been called with the bar of lastCandle
BarClosed == \E k \in 1..Len(onCandleSeen) : onCandleSeen[k] = lastCandle.mts

\* the closure timer is due: it fires before the clock advances
TimerDue == nextCandleTimeout # Undefined /\ nextCandleTimeout <= now

\* this step calls onCandle from the callback of the closure timer
TimerCloses ==
  /\ Started({"onCandle"})
  /\ pending'[Len(pending')].origin = "timer"

\* C15: a live engine whose lastCandle is 1.5 candle widths old closes that bar
\* at that time: the timer is due or onCandle has been called with lastCandle;
\* the candle the timer processes has mts = lastCandle.mts + w, open, high, low
\* and close equal to lastCandle.close and volume 0, and onCandle receives
\* lastCandle
C15_WatchdogClosesBar ==
  [][/\ Overdue' => (TimerDue' \/ BarClosed')
     /\ TimerCloses =>
          LET t == pending'[Len(pending')]
          IN /\ t.arg = lastCandle
             /\ t.data.mts = lastCandle.mts + CandleWidth
             /\ t.data.open = lastCandle.close /\ t.data.high = lastCandle.close
             /\ t.data.low = lastCandle.close /\ t.data.close = lastCandle.close
             /\ t.data.volume = 0]_vars

\* the timer closed a bar exactly 1.5 candle widths after its mts
C15_Witness ==
  \E i \in 1..Len(pending) :
    /\ pending[i].origin = "timer" /\ pending[i].cb = "onCandle"
    /\ now = pending[i].arg.mts + (3 * CandleWidth) \div 2
    /\ pending[i].data.mts = pending[i].arg.mts + CandleWidth
    /\ lastCandle = pending[i].arg
    /\ phase = "live" /\ ~paused /\ ~stopped

\* C16: while the engine is paused or stopped the callback of the closure timer
\* processes no synthetic candle, whenever the timer was armed
C16_NoClosureWhilePausedOrStopped ==
  [][(paused \/ stopped) => ~TimerCloses]_vars

\* a timer armed earlier fired on a paused or stopped engine
C16_Witness == suppressed > 0 /\ (paused \/ stopped) /\ nextCandleTimeout = Undefined

\* C17: onCandle is called once for a bar, by the first candle of a later bar
\* and with the bar's last update: no two consecutive onCandle calls are for the
\* same bar, and the candle that causes a call is later than the bar it closes,
\* which is lastCandle as it was when the call was made
C17_OneOnCandlePerBar ==
  /\ Len(onCandleSeen) = 2 => onCandleSeen[1] # onCandleSeen[2]
  /\ \A i \in InFlight({"onCandle"}) :
       /\ pending[i].arg.mts < pending[i].data.mts
       /\ pending[i].origin = "drain" => pending[i].arg = pending[i].lastCandle

\* C18: the handler of invoke() and a strategy callback are never in flight
\* together, so each of them is given the state the other one returned
C18_InvokeIsSerialised ==
  InFlight({"strategyHandler"}) # {} => InFlight(StrategyCallbacks) = {}

\* C19: on a live engine every failure of onCandle, onTrade or onOrder emits
\* one error event, whether the drain loop or the closure timer made the call
C19_FailureEmitsError ==
  [][\A i \in 1..Len(pending) :
       (Failed(i) /\ pending[i].cb \in DrainCallbacks /\ phase = "live")
         => Len(errors') = Len(errors) + 1]_vars

\* a seed request or an onSeedCandle call is outstanding
Seeding(p) == {i \in 1..Len(p) : p[i].origin \in {"seed", "execute"}}

\* C20: execute() subscribes to candles and trades in the step in which the
\* last seed request or onSeedCandle call returns, and while the engine is
\* subscribed no seed request and no onSeedCandle call is outstanding
C20_SubscribesAfterSeeding ==
  [][/\ phase' = "live" => Seeding(pending') = {}
     /\ (phase # "live" /\ phase' = "live")
          => \E i \in Seeding(pending) : pending' = RemoveAt(pending, i)]_vars

\* the engine is subscribed and was seeded with two candles
C20_Witness ==
  /\ phase = "live" /\ strategyState = CandleSeed
  /\ lastCandle # Null /\ onCandleSeen = <<>>

C22_SeedStrictlyIncreasing ==
  [][/\ Started({"onSeedCandle"})
          => \/ lastCandle' = Null
             \/ lastCandle'.mts < pending'[Len(pending')].arg.mts
     /\ (phase = "seeding" /\ phase' = "live")
          => /\ lastCandle' # Null
             /\ "symbol" \in DOMAIN lastCandle'
             /\ \A i \in InFlight({"onSeedCandle"}) :
                  pending' = RemoveAt(pending, i) => lastCandle' = pending[i].arg]_vars

\* the window of the seed page a request or an onSeedCandle call belongs to
PageOf(t) == IF t.cb = "candles" THEN t.data ELSE t.data.query

\* this step hands the request of a seed page to the throttle
SeedPageRequested ==
  /\ pending' # <<>> /\ pending' # pending
  /\ pending'[Len(pending')].cb = "candles"
  /\ pending'[Len(pending')].origin = "seed"

\* C23: seeding requests ceil(N / page size) windows, each at most a page
\* wide, the first one starting at alignedEnd - N * w, each next one where the
\* one before it ended, the last one ending at alignedEnd; onSeedCandle is
\* called once for each of the N buckets alignedEnd - N * w, ...,
\* alignedEnd - w, in this order, and for no other candle
C23_SeedsExactlyNBuckets ==
  [][LET alignedEnd == AlignRangeMts(now)
         first == alignedEnd - (candleSeed * CandleWidth)
     IN /\ SeedPageRequested
             => LET q == pending'[Len(pending')].data
                IN /\ q.page < Ceil(candleSeed, CANDLE_FETCH_LIMIT)
                   /\ q.start < q.end
                   /\ q.end - q.start <= CANDLE_FETCH_LIMIT * CandleWidth
                   /\ phase = "fresh" => q.page = 0 /\ q.start = first
                   /\ \A i \in Seeding(pending) :
                        /\ q.page = PageOf(pending[i]).page + 1
                        /\ q.start = PageOf(pending[i]).end
        /\ Started({"onSeedCandle"})
             => LET mts == pending'[Len(pending')].arg.mts
                IN /\ mts = IF lastCandle' = Null THEN first
                            ELSE lastCandle'.mts + CandleWidth
                   /\ mts <= alignedEnd - CandleWidth
        /\ (phase = "seeding" /\ phase' = "live")
             => /\ \A i \in Seeding(pending) : PageOf(pending[i]).end = alignedEnd
                /\ lastCandle'.mts = alignedEnd - CandleWidth]_vars

\* C24: for aligned start and end and an ascending list of real candles at
\* aligned buckets of [start, end), empty or not, _padCandles returns
\* (end - start) / width candles whose mts are start, start + width, ...,
\* end - width, with every real candle unchanged at its bucket
C24_PadCoversEveryBucket ==
  output # Null
    => LET padded == output.value
           n == (input.end - input.start) \div CandleWidth
       IN /\ Len(padded) = n
          /\ \A k \in 1..n : padded[k].mts = input.start + ((k - 1) * CandleWidth)
          /\ \A i \in 1..Len(input.candles) :
               padded[((input.candles[i].mts - input.start) \div CandleWidth) + 1]
                 = input.candles[i]

Matches(wallet, data) == wallet.currency = data.currency /\ wallet.type = data.type

Results(em) == {k \in 1..Len(em) : em[k].event = "rt_execution_results"}

\* this step goes on after the callback of the dequeued message pending[i]
\* returned: the first results event of the turn is the one of that message
EmitsFor(i) ==
  /\ i \in DrainInFlight(pending)
  /\ pending[i].cb \in {"onCandle", "onTrade"}
  /\ nFail' = nFail /\ events' = events /\ now' = now
  /\ nextCandleTimeout # Undefined => now < nextCandleTimeout
  /\ SubSeq(pending', 1, Len(pending) - 1) = RemoveAt(pending, i)
  /\ Results(emitted') # {}

\* C28: a results event of a candle or a trade is emitted when lastCandle or
\* lastTrade is that event and strategyState is what its callback returned;
\* a candle or trade that became lastCandle or lastTrade has its results
\* event in the same turn, and an event that did not (an older candle, a
\* duplicate trade) has none; the results event of a dequeued message is
\* emitted while no other dequeued message waits for its callback, that is
\* before the next message is dequeued
C28_EmissionFollowsUpdate ==
  [][/\ \A k \in Results(emitted') :
          /\ emitted'[k].type = "candle" => emitted'[k].lastCandle = emitted'[k].data
          /\ emitted'[k].type = "trade" => emitted'[k].lastTrade = emitted'[k].data
     /\ (phase = "live" /\ lastCandle' # lastCandle)
          => \E k \in Results(emitted') :
               emitted'[k].type = "candle" /\ emitted'[k].data = lastCandle'
     /\ lastTrade' # lastTrade
          => \E k \in Results(emitted') :
               emitted'[k].type = "trade" /\ emitted'[k].data = lastTrade'
     /\ \A i \in 1..Len(pending) :
          EmitsFor(i)
            => LET first == emitted'[CHOOSE k \in Results(emitted') :
                                      \A j \in Results(emitted') : k <= j]
               IN /\ first.data = pending[i].data
                  /\ first.state = Result(pending[i])
                  /\ first.drains = 0]_vars

\* the field of a candle that the claim takes for its price
ClaimedPriceField == IF candlePrice = NoCandlePrice THEN "close" ELSE candlePrice

\* C29: in every turn, the results event of a candle that carries a price in
\* its candlePrice field (close when the strategy configures none) comes right
\* after an opened_position_data event when the strategy holds a position,
\* and no opened_position_data event is emitted when it holds none
C29_OpenedPositionBeforeResults ==
  [][/\ \A k \in Results(emitted') :
          (/\ position
           /\ emitted'[k].type = "candle"
           /\ Truthy(emitted'[k].data[ClaimedPriceField]))
            => k > 1 /\ emitted'[k - 1].event = "opened_position_data"
     /\ ~position
          => \A k \in 1..Len(emitted') : emitted'[k].event # "opened_position_data"]_vars

\* how often msg occurs in the queue q
Occurrences(q, msg) == Cardinality({k \in 1..Len(q) : q[k] = msg})

\* the messages of q with data.mts = m, in their order
AtMts(q, m) == LET Test(x) == MtsOf(x) = m IN SelectSeq(q, Test)

\* C30: after a resume has inserted the back-fill messages the queue holds
\* each message queued before and each back-fill candle as often as before,
\* no message with a data.mts stands before a message with a smaller
\* data.mts, and the messages of one data.mts are in the order they had with
\* the back-fill messages in front, whatever types the queued messages have
C30_ResumeOrdersQueue ==
  output # Null
    => LET before == BackfillMessages(input.candles) \o input.messages
           after == output.value
       IN /\ Len(after) = Len(before)
          /\ \A k \in 1..Len(before) :
               Occurrences(after, before[k]) = Occurrences(before, before[k])
          /\ \A i, j \in 1..Len(after) :
               (i < j /\ MtsOf(after[i]) # Undefined /\ MtsOf(after[j]) # Undefined)
                 => MtsOf(after[i]) <= MtsOf(after[j])
          /\ \A k \in 1..Len(before) :
               MtsOf(before[k]) # Undefined
                 => AtMts(after, MtsOf(before[k])) = AtMts(before, MtsOf(before[k]))

\* seeding has finished and the engine is neither paused nor stopped
Live == phase = "live" /\ ~paused /\ ~stopped

\* the callback of a closure timer that fired waits for onCandle
TimerInFlight == \E i \in 1..Len(pending) : pending[i].origin = "timer"

\* C31: while the engine is live and no closure timer is in its own
\* callback, one closure timer is armed, for lastCandle.mts + 1.5 * w of the
\* current lastCandle, or for the time of arming when that time had passed
C31_OneTimerForLastCandle ==
  (Live /\ lastCandle # Null /\ ~TimerInFlight)
    => /\ nextCandleTimeout # Undefined
       /\ \/ nextCandleTimeout = lastCandle.mts + CalculateTimeToWaitForCandle(CandleWidth)
          \/ /\ lastCandle.mts + CalculateTimeToWaitForCandle(CandleWidth) < nextCandleTimeout
             /\ nextCandleTimeout <= now

\* C32: once seeding has finished no step lowers lastCandle.mts
C32_LastCandleNeverGoesBack ==
  [][(phase = "live" /\ lastCandle # Null)
       => lastCandle' # Null /\ lastCandle'.mts >= lastCandle.mts]_vars

\* C33: processing is true exactly when a drain loop is active, which
\* between two turns is a loop that waits for the callback of the message it
\* dequeued
C33_ProcessingIsAccurate == processing <=> DrainInFlight(pending) # {}

\* the back-fill requests of resume handlers that have not finished
Resuming(p) == {i \in 1..Len(p) : p[i].cb = "candles" /\ p[i].origin = "open"}

\* C34: when no resume handler waits for its back-fill, paused is true
\* exactly when the last event of the socket was a close
C34_PausedTracksSocket ==
  (socket # Untracked /\ Resuming(pending) = {})
    => (paused <=> socket = "close")

\* this step puts back-fill messages in the queue
BackfillInserted ==
  \E i \in Resuming(pending) :
    /\ pending' = RemoveAt(pending, i)
    /\ nFail' = nFail
    /\ \E k \in 1..Len(messages') : IsBackfill(messages'[k])

\* C35: a pause is back-filled once: at most one back-fill request is
\* outstanding at any time, and back-fill candles are put in the queue only
\* by the resume that ends the pause
C35_OneBackfillPerPause ==
  [][/\ Cardinality(Resuming(pending')) <= 1
     /\ BackfillInserted => paused]_vars

\* the messages of the queue q that _enqueueMessage accepted
Accepted(q) == {k \in 1..Len(q) : ~IsBackfill(q[k])}

\* this step ends a resume handler
ResumeEnds == \E i \in Resuming(pending) : pending' = RemoveAt(pending, i)

\* the messages that are in the queue or were taken from it
Handled(q, d) == Len(q) + d

\* C36: no step takes a message out of the count of the messages queued and
\* dispatched, a step that is not a socket event puts a message in this
\* count only by the back-fill of a resume, an event puts at most one in it,
\* and a resume leaves the accepted messages of the queue as many as they
\* were; when strategy callbacks return, the queue is eventually free of
\* accepted messages
C36_NoMessageLostOrDuplicated ==
  /\ [][/\ Handled(messages', dispatched') >= Handled(messages, dispatched)
        /\ (events' = events /\ ~ResumeEnds)
             => Handled(messages', dispatched') = Handled(messages, dispatched)
        /\ events' # events
             => Handled(messages', dispatched') <= Handled(messages, dispatched) + 1
        /\ ResumeEnds
             => Cardinality(Accepted(messages')) = Cardinality(Accepted(messages))]_vars
  /\ (Accepted(messages) # {}) ~> (Accepted(messages) = {})

\* an accepted message waits in the queue of a paused engine whose back-fill
\* request is outstanding
C36_Witness ==
  /\ Accepted(messages) # {}
  /\ paused
  /\ Resuming(pending) # {}

\* the calls of onEnd and closeOpenPositions that stopExecution waits for
Stopping(p) == {i \in 1..Len(p) : p[i].cb \in {"onEnd", "closeOpenPositions"}}

\* C37: the step in which a stopExecution call finishes, by the return of
\* its last callback or by the failure of onEnd or closeOpenPositions, leaves
\* stopped true
C37_StopAlwaysLatches ==
  [][\A i \in Stopping(pending) :
       (\/ Failed(i)
        \/ pending' = RemoveAt(pending, i) /\ nFail' = nFail)
         => stopped']_vars

\* the watchdog has processed a synthetic candle, which is lastCandle: the
\* last onCandle call closed the bar before it
WatchdogCandle ==
  /\ Live /\ ~TimerInFlight
  /\ lastCandle # Null /\ lastCandle.volume = 0 /\ "symbol" \in DOMAIN lastCandle
  /\ onCandleSeen # <<>>
  /\ onCandleSeen[Len(onCandleSeen)] = lastCandle.mts - CandleWidth

\* the engine after the candle event of the real candle with close c for
\* the bar of lastCandle
AfterRealCandle(c) ==
  Drain(EnqueueMessage(Cur, "candle", StampCandle(RealCandle(lastCandle.mts, c))))

\* the engine e after the candle event of the first candle of the next bar
AfterNextBar(e) ==
  Drain(EnqueueMessage(e, "candle",
                       StampCandle(RealCandle(lastCandle.mts + CandleWidth, 1))))

\* C38: when lastCandle is a synthetic candle of the watchdog, the event of
\* the real candle of the same bar makes the real candle lastCandle without
\* a call of onCandle, and the next closure, by the first candle of the
\* next bar, passes the real candle to onCandle
C38_RealReplacesSynthetic ==
  WatchdogCandle
    => \A c \in {1, 2} :
         LET real == StampCandle(RealCandle(lastCandle.mts, c))
             e == AfterRealCandle(c)
             closed == AfterNextBar(e)
         IN /\ e.lastCandle = real
            /\ e.onCandleSeen = onCandleSeen
            /\ e.pending = pending
            /\ Len(closed.pending) = Len(pending) + 1
            /\ closed.pending[Len(closed.pending)].cb = "onCandle"
            /\ closed.pending[Len(closed.pending)].arg = real

\* C39: execute() is rejected only when a seed request or a strategy
\* callback failed, so that seeding which delivers no candle still ends with
\* the engine live; and on a live engine that has no lastCandle the event of
\* a candle makes this candle lastCandle without a call of onCandle
C39_LiveWithoutSeedCandles ==
  [][/\ (phase # "failed" /\ phase' = "failed") => nFail' = nFail + 1
     /\ (phase = "live" /\ lastCandle = Null /\ lastCandle' # Null)
          => ~Started({"onCandle"})]_vars

====
